---- MODULE Spec2Model ----
(***************************************************************************)
(* Model of rust/gitxetcore/src/command/dir_summary.rs: the `dir-summary`  *)
(* command (dir_summary_command) with its git-notes cache, and the         *)
(* per-directory file-type aggregation (compute_dir_summaries).            *)
(*                                                                         *)
(* Two specifications share the variables:                                 *)
(*   Spec     a sequence of invocations of dir_summary_command against a   *)
(*            notes store that persists between them;                      *)
(*   AggSpec  one run of compute_dir_summaries, statement by statement,    *)
(*            on a file listing drawn from a bounded universe.             *)
(***************************************************************************)
EXTENDS Integers, Sequences, FiniteSets

\* ------------------------------------------------------------------ bounds

\* Largest number of files of a listing in AggSpec.
MaxFiles == 3

\* Number of invocations of the command in one behaviour of Spec.
MaxInvocations == 2

\* Number of distinct key orders serde_json may emit for one HashMap value
\* (HashMap iteration order is unspecified, so the text of one value varies).
NumKeyOrders == 2

\* --------------------------------------------------------------- constants

\* const DIR_SUMMARY_VERSION: i64 = 1;
DIR_SUMMARY_VERSION == 1

\* ------------------------------------------------------------------- maps
\* A HashMap is a function whose domain is its key set.

EmptyMap == [k \in {} |-> 0]

\* HashMap::insert
Put(m, k, v) == [x \in (DOMAIN m) \cup {k} |-> IF x = k THEN v ELSE m[x]]

\* HashMap::entry(k).or_insert(v) / or_default(): the map after the call.
EntryOrInsert(m, k, v) == IF k \in DOMAIN m THEN m ELSE Put(m, k, v)

\* ------------------------------------------------------------------ paths
\* A path is the sequence of its components; "" is the empty sequence.

RootDir == << >>

DirNames == <<"a", "b">>

\* Directories of the universe: "", a, b, a/b.
AllDirs ==
    {RootDir}
    \cup {<<DirNames[i]>> : i \in 1..Len(DirNames)}
    \cup {<<DirNames[q[1]], DirNames[q[2]]>> :
            q \in {r \in (1..Len(DirNames)) \X (1..Len(DirNames)) : r[1] < r[2]}}

FileNames == {"x.png", "y.png", "c.txt", "Makefile"}

AllPaths == {Append(d, n) : d \in AllDirs, n \in FileNames}

\* Path::parent().unwrap_or_else(|| Path::new("")): drop the last component;
\* the empty path has no parent and maps to "".
Parent(p) == IF Len(p) = 0 THEN RootDir ELSE SubSeq(p, 1, Len(p) - 1)

\* --------------------------------------------------------------- classifier
\* summarize_libmagic lives in another crate: a type label (empty when the
\* file cannot be classified) and a display name, by the file's name.
\* x.png and y.png share the type label and differ in the display name.
summarize_libmagic(path) ==
    LET name == path[Len(path)] IN
    CASE name = "x.png" -> [file_type |-> "png", file_type_simple |-> "Image"]
      [] name = "y.png" -> [file_type |-> "png", file_type_simple |-> "Picture"]
      [] name = "c.txt" -> [file_type |-> "txt", file_type_simple |-> "Text"]
      [] OTHER          -> [file_type |-> "",    file_type_simple |-> ""]

\* compute_file_summary: FileSummary { libmagic: Some(summarize_libmagic(path)) }
compute_file_summary(path) == [libmagic |-> summarize_libmagic(path)]

TypeLabels == {"png", "txt"}

\* ------------------------------------------------------------- aggregation

\* A default that carries the version before the current one.
DirSummariesDefault_PreviousVersion ==
    [version |-> DIR_SUMMARY_VERSION - 1, summaries |-> EmptyMap]

\* impl Default for DirSummaries
DirSummariesDefault == [version |-> DIR_SUMMARY_VERSION, summaries |-> EmptyMap]

\* The fold without `if !extension.is_empty()`: an empty type label is
\* counted like any other.
FoldFile_NoEmptyCheck(ds, path) ==
    LET file_summary == compute_file_summary(path)
        entry_dir == Parent(path)
        withDir   == EntryOrInsert(ds.summaries, entry_dir, EmptyMap)
        extension == file_summary.libmagic.file_type
        seeded    == EntryOrInsert(withDir[entry_dir], extension,
                        [count |-> 0,
                         display_name |-> file_summary.libmagic.file_type_simple])
        counted   == [seeded EXCEPT ![extension].count = @ + 1]
    IN  [ds EXCEPT !.summaries = Put(withDir, entry_dir, counted)]

\* The fold with the display name written at every file (insert for
\* or_insert): the last file of a type names it.
FoldFile_LastNameWins(ds, path) ==
    LET file_summary == compute_file_summary(path)
        entry_dir == Parent(path)
        withDir   == EntryOrInsert(ds.summaries, entry_dir, EmptyMap)
        extension == file_summary.libmagic.file_type
        seeded    == EntryOrInsert(withDir[entry_dir], extension,
                        [count |-> 0,
                         display_name |-> file_summary.libmagic.file_type_simple])
        counted   == [seeded EXCEPT ![extension] =
                        [count |-> @.count + 1,
                         display_name |-> file_summary.libmagic.file_type_simple]]
    IN  IF extension # ""
        THEN [ds EXCEPT !.summaries = Put(withDir, entry_dir, counted)]
        ELSE [ds EXCEPT !.summaries = withDir]

\* The body of `for blob_data in tree_listing.files`: the directory entry is
\* looked up or created first, then the type entry is created and counted
\* when the type label is not empty.
FoldFile(ds, path) ==
    LET file_summary == compute_file_summary(path)
        entry_dir == Parent(path)
        withDir   == EntryOrInsert(ds.summaries, entry_dir, EmptyMap)
        extension == file_summary.libmagic.file_type
        seeded    == EntryOrInsert(withDir[entry_dir], extension,
                        [count |-> 0,
                         display_name |-> file_summary.libmagic.file_type_simple])
        counted   == [seeded EXCEPT ![extension].count = @ + 1]
    IN  IF extension # ""
        THEN [ds EXCEPT !.summaries = Put(withDir, entry_dir, counted)]
        ELSE [ds EXCEPT !.summaries = withDir]

\* The roll-up step with `count += 1` for `count += count`.
AddAt_One(agg, entry_dir, file_type, info) ==
    LET withDir == EntryOrInsert(agg.summaries, entry_dir, EmptyMap)
        seeded  == EntryOrInsert(withDir[entry_dir], file_type,
                        [count |-> 0, display_name |-> info.display_name])
        counted == [seeded EXCEPT ![file_type].count = @ + 1]
    IN  [agg EXCEPT !.summaries = Put(withDir, entry_dir, counted)]

\* The roll-up step with `count = count` for `count += count`.
AddAt_Assign(agg, entry_dir, file_type, info) ==
    LET withDir == EntryOrInsert(agg.summaries, entry_dir, EmptyMap)
        seeded  == EntryOrInsert(withDir[entry_dir], file_type,
                        [count |-> 0, display_name |-> info.display_name])
        counted == [seeded EXCEPT ![file_type].count = info.count]
    IN  [agg EXCEPT !.summaries = Put(withDir, entry_dir, counted)]

\* One iteration of the roll-up `loop`, up to the count update: the entry of
\* entry_dir and of file_type is looked up or created, then `count` is added.
AddAt(agg, entry_dir, file_type, info) ==
    LET withDir == EntryOrInsert(agg.summaries, entry_dir, EmptyMap)
        seeded  == EntryOrInsert(withDir[entry_dir], file_type,
                        [count |-> 0, display_name |-> info.display_name])
        counted == [seeded EXCEPT ![file_type].count = @ + info.count]
    IN  [agg EXCEPT !.summaries = Put(withDir, entry_dir, counted)]

\* The walk stopping at a top-level directory, one step short of the root.
AtRoot_TopLevel(entry_dir) == Len(entry_dir) <= 1

\* `entry_dir == PathBuf::from_str("").unwrap()`: the walk stops at the root.
AtRoot(entry_dir) == entry_dir = RootDir

\* The (path, file_type) pairs the two nested `for` loops of the roll-up visit.
Pairs(ds) ==
    UNION {{[path |-> d, file_type |-> t] : t \in DOMAIN ds.summaries[d]} :
              d \in DOMAIN ds.summaries}

\* A set as a sequence, in one fixed order.
RECURSIVE SetToSeq(_)
SetToSeq(S) ==
    IF S = {} THEN << >>
    ELSE LET x == CHOOSE y \in S : TRUE IN <<x>> \o SetToSeq(S \ {x})

\* The first loop of compute_dir_summaries over a listing, in listing order.
RECURSIVE BuildDirect(_, _)
BuildDirect(ds, listing) ==
    IF listing = << >> THEN ds
    ELSE BuildDirect(FoldFile(ds, Head(listing)), Tail(listing))

\* The `loop` of the roll-up for one (path, file_type, info), from entry_dir.
RECURSIVE Walk(_, _, _, _)
Walk(agg, entry_dir, file_type, info) ==
    LET added == AddAt(agg, entry_dir, file_type, info) IN
    IF AtRoot(entry_dir) THEN added
    ELSE Walk(added, Parent(entry_dir), file_type, info)

\* The roll-up over the pairs of `direct`, in the order of `order`.
RECURSIVE RollUp(_, _, _)
RollUp(agg, direct, order) ==
    IF order = << >> THEN agg
    ELSE LET p == Head(order) IN
         RollUp(Walk(agg, p.path, p.file_type,
                     direct.summaries[p.path][p.file_type]),
                direct, Tail(order))

\* compute_dir_summaries on a listing. The order of the roll-up is the
\* HashMap's; here it is one fixed order (the listings of Spec give every
\* type one display name, so the order does not show in the result).
compute_dir_summaries(listing, recursive) ==
    LET dir_summary == BuildDirect(DirSummariesDefault, listing) IN
    IF recursive
    THEN RollUp(DirSummariesDefault, dir_summary, SetToSeq(Pairs(dir_summary)))
    ELSE dir_summary

\* ------------------------------------------------------- the notes store
\* A note's content, and every text the command handles, is a record:
\*   kind "none"     no note under the key
\*   kind "nontext"  a note whose message is not UTF-8 (message() is None)
\*   kind "garbage"  a text that does not parse as a DirSummaries
\*   kind "empty"    the empty string (String::new())
\*   kind "json"     the JSON text of a DirSummaries, its keys in `order`

Text(kind, version, summaries, order) ==
    [kind |-> kind, version |-> version, summaries |-> summaries, order |-> order]

NoNote     == Text("none", 0, EmptyMap, 0)
NonText    == Text("nontext", 0, EmptyMap, 0)
Garbage    == Text("garbage", 0, EmptyMap, 0)
EmptyStr   == Text("empty", 0, EmptyMap, 0)

KeyOrders == 1..NumKeyOrders

\* serde_json::to_string_pretty(&summaries): the keys come in the HashMap's order.
to_string_pretty(ds, order) == Text("json", ds.version, ds.summaries, order)

\* serde_json::from_str::<DirSummaries>(content_str)
from_str(text) ==
    IF text.kind = "json"
    THEN [ok |-> TRUE, d |-> [version |-> text.version, summaries |-> text.summaries]]
    ELSE [ok |-> FALSE, d |-> DirSummariesDefault]

\* The version test inverted.
IsCurrent_Inverted(d) == d.version # DIR_SUMMARY_VERSION

\* `if d.version == DIR_SUMMARY_VERSION`
IsCurrent(d) == d.version = DIR_SUMMARY_VERSION

\* note.message(): None when the message is not valid UTF-8.
message(note) == [some |-> note.kind # "nontext", text |-> note]

NotesRefs == {"refs/notes/xet/dir-summary", "refs/notes/xet/dir-summary-recursive"}

\* One ref for both modes.
NotesRef_Shared(recursive) == "refs/notes/xet/dir-summary"

\* let notes_ref = if args.recursive { ... } else { ... };
NotesRef(recursive) ==
    IF recursive THEN "refs/notes/xet/dir-summary-recursive"
                 ELSE "refs/notes/xet/dir-summary"

\* The repository: two commits, and a reference that does not resolve.
References == {"HEAD", "v1", "nope"}
Oids       == {"c1", "c2"}
Unresolved == "unresolved"

\* gitrepo.revparse_single(&args.reference)
revparse_single(reference) ==
    CASE reference = "HEAD" -> "c1"
      [] reference = "v1"   -> "c2"
      [] OTHER              -> Unresolved

\* GitTreeListing::build(...).files of a commit.
TreeListing(oid) ==
    IF oid = "c1"
    THEN << <<"a", "x.png">>, <<"a", "b", "x.png">>, <<"c.txt">>, <<"Makefile">> >>
    ELSE << <<"b", "c.txt">> >>

NoteKeys == NotesRefs \X Oids

\* gitrepo.find_note(Some(notes_ref), oid): Ok(note), or Err for a missing
\* note, or Err for a failure of the object database.
find_note(store, notes_ref, oid, ioerr) ==
    IF ioerr THEN [res |-> "err", note |-> NoNote]
    ELSE IF store[<<notes_ref, oid>>].kind = "none"
         THEN [res |-> "notfound", note |-> NoNote]
         ELSE [res |-> "ok", note |-> store[<<notes_ref, oid>>]]

\* gitrepo.note(&sig, &sig, Some(notes_ref), oid, &content_str, force):
\* without force an existing note is an error and stays.
note(store, notes_ref, oid, content, force) ==
    IF ~force /\ store[<<notes_ref, oid>>].kind # "none"
    THEN [ok |-> FALSE, store |-> store]
    ELSE [ok |-> TRUE, store |-> [store EXCEPT ![<<notes_ref, oid>>] = content]]

\* The `force` argument of the call of gitrepo.note.
NoteForce == TRUE

\* -------------------------------------------------------------- variables

VARIABLES
    \* Spec: the command
    notes,        \* the notes store: NoteKeys -> text
    pc,           \* position of the invocation
    args,         \* DirSummaryArgs of the invocation
    oid,          \* the resolved commit
    recompute,    \* `let mut recompute`
    content_str,  \* `let mut content_str`
    output,       \* what println! wrote
    lookup,       \* outcome of find_note in this invocation
    seen,         \* the note find_note returned in this invocation
    reads,        \* calls of find_note in this invocation
    writes,       \* calls of gitrepo.note in this invocation
    forced,       \* the force argument of the last call of gitrepo.note
    computes,     \* calls of compute_dir_summaries in this invocation
    prev,         \* per key: output of the last completed invocation with the cache on
    invocations,  \* invocations started
    err,          \* where the invocation returned an error, "none" if nowhere
    notes0,       \* the notes store when the invocation started
    writer,       \* per key: the recursive flag of the invocation that wrote the note
    \* AggSpec: compute_dir_summaries
    tree_files,   \* tree_listing.files
    recursive,    \* the `recursive` argument
    todo,         \* files the first loop has not reached yet
    dir_summary,  \* `let mut dir_summary`
    pairs,        \* (path, file_type) pairs the roll-up has not reached yet
    cur,          \* the pair of the running `loop`
    entry_dir,    \* `let mut entry_dir` of the running `loop`
    aggregated_ds,\* `let mut aggregated_ds`
    apc,          \* position in compute_dir_summaries
    walk,         \* the values entry_dir took in the running `loop`, in order
    before,       \* aggregated_ds when the running `loop` started
    ret           \* the value returned

cmdVars == <<notes, pc, args, oid, recompute, content_str, output, lookup,
             seen, reads, writes, forced, computes, prev, invocations,
             err, notes0, writer>>
aggVars == <<tree_files, recursive, todo, dir_summary, pairs, cur, entry_dir,
             aggregated_ds, apc, walk, before, ret>>
vars == <<cmdVars, aggVars>>

NoOutput == Text("nooutput", 0, EmptyMap, 0)
NoPair   == [path |-> RootDir, file_type |-> ""]

\* Notes a store can hold before the first invocation: none, a non-UTF-8
\* note, an unparsable text, a summary of the previous format version, and
\* a summary of the current version.
StaleNote   == Text("json", DIR_SUMMARY_VERSION - 1, EmptyMap, 1)
CurrentNote == Text("json", DIR_SUMMARY_VERSION, EmptyMap, 1)

InitialNotes == {NoNote, NonText, Garbage, StaleNote, CurrentNote}

AggIdle ==
    /\ tree_files = {}
    /\ recursive = FALSE
    /\ todo = {}
    /\ dir_summary = DirSummariesDefault
    /\ pairs = {}
    /\ cur = NoPair
    /\ entry_dir = RootDir
    /\ aggregated_ds = DirSummariesDefault
    /\ apc = "idle"
    /\ walk = << >>
    /\ before = DirSummariesDefault
    /\ ret = DirSummariesDefault

CmdIdle ==
    /\ pc = "idle"
    /\ args = [reference |-> "HEAD", no_cache |-> FALSE, recursive |-> FALSE]
    /\ oid = Unresolved
    /\ recompute = TRUE
    /\ content_str = EmptyStr
    /\ output = NoOutput
    /\ lookup = "none"
    /\ seen = NoNote
    /\ reads = 0
    /\ writes = 0
    /\ forced = FALSE
    /\ computes = 0
    /\ prev = [k \in NoteKeys |-> NoOutput]
    /\ invocations = 0
    /\ err = "none"
    /\ notes0 = notes
    /\ writer = [k \in NoteKeys |-> "nobody"]

\* Commit c1 starts with any note under each ref, commit c2 with none or
\* with a summary of the previous version.
Init ==
    /\ notes \in [NoteKeys -> InitialNotes]
    /\ \A k \in NoteKeys : k[2] = "c2" => notes[k] \in {NoNote, StaleNote}
    /\ CmdIdle
    /\ AggIdle

\* ---------------------------------------------------- dir_summary_command

Key == <<NotesRef(args.recursive), oid>>

\* The command is started: GitXetRepo::open, which may fail.
Invoke(reference, no_cache, rec, opened) ==
    /\ pc \in {"idle", "done", "failed"}
    /\ invocations < MaxInvocations
    /\ invocations' = invocations + 1
    /\ prev' = IF pc = "done" /\ ~args.no_cache
               THEN [prev EXCEPT ![Key] = output] ELSE prev
    /\ args' = [reference |-> reference, no_cache |-> no_cache, recursive |-> rec]
    /\ pc' = IF opened THEN "resolve" ELSE "failed"
    /\ err' = IF opened THEN "none" ELSE "open"
    /\ notes0' = notes
    /\ oid' = Unresolved
    /\ recompute' = TRUE
    /\ content_str' = EmptyStr
    /\ output' = NoOutput
    /\ lookup' = "none"
    /\ seen' = NoNote
    /\ reads' = 0
    /\ writes' = 0
    /\ forced' = FALSE
    /\ computes' = 0
    /\ UNCHANGED <<notes, writer, aggVars>>

\* revparse_single(...)?.id(), then the two `let mut`.
Resolve ==
    /\ pc = "resolve"
    /\ oid' = revparse_single(args.reference)
    /\ pc' = IF oid' = Unresolved THEN "failed" ELSE "cache"
    /\ err' = IF oid' = Unresolved THEN "resolve" ELSE "none"
    /\ recompute' = TRUE
    /\ content_str' = EmptyStr
    /\ UNCHANGED <<notes, args, output, lookup, seen, reads, writes, forced, computes,
                   prev, invocations, notes0, writer, aggVars>>

\* `if let (false, Ok(note)) = (args.no_cache, gitrepo.find_note(..))`: the
\* tuple is built first, so find_note runs whatever no_cache is; the body
\* reads the message (an error when it is not text), parses it and compares
\* the version.
CheckCache(ioerr) ==
    /\ pc = "cache"
    /\ LET found == find_note(notes, NotesRef(args.recursive), oid, ioerr)
           msg   == message(found.note)
           parsed == from_str(msg.text)
       IN  /\ reads' = reads + 1
           /\ lookup' = found.res
           /\ seen' = found.note
           /\ IF ~args.no_cache /\ found.res = "ok"
              THEN IF ~msg.some
                   THEN /\ pc' = "failed"
                        /\ err' = "message"
                        /\ UNCHANGED <<recompute, content_str>>
                   ELSE /\ content_str' = msg.text
                        /\ err' = "none"
                        /\ recompute' = ~(parsed.ok /\ IsCurrent(parsed.d))
                        /\ pc' = IF recompute' THEN "recompute" ELSE "print"
              ELSE /\ pc' = "recompute"
                   /\ err' = "none"
                   /\ UNCHANGED <<recompute, content_str>>
    /\ UNCHANGED <<notes, args, oid, output, writes, forced, computes, prev,
                   invocations, notes0, writer, aggVars>>

\* The recompute with the error of compute_dir_summaries swallowed
\* (unwrap_or_default for `?`): the command goes on with an empty summary.
Recompute_DefaultOnError(listed, order) ==
    /\ pc = "recompute"
    /\ computes' = computes + 1
    /\ content_str' = to_string_pretty(
           IF listed THEN compute_dir_summaries(TreeListing(oid), args.recursive)
                     ELSE DirSummariesDefault, order)
    /\ pc' = IF ~args.no_cache THEN "write" ELSE "print"
    /\ err' = IF listed THEN "none" ELSE "compute"
    /\ UNCHANGED <<notes, args, oid, recompute, output, lookup, seen, reads, writes,
                   forced, prev, invocations, notes0, writer, aggVars>>

\* `if recompute { compute_dir_summaries(..).await?; to_string_pretty(..)? ..`
\* The listing or the classification of a file may fail.
Recompute(listed, order) ==
    /\ pc = "recompute"
    /\ computes' = computes + 1
    /\ IF listed
       THEN /\ content_str' = to_string_pretty(
                   compute_dir_summaries(TreeListing(oid), args.recursive), order)
            /\ pc' = IF ~args.no_cache THEN "write" ELSE "print"
            /\ err' = "none"
       ELSE /\ pc' = "failed"
            /\ err' = "compute"
            /\ UNCHANGED content_str
    /\ UNCHANGED <<notes, args, oid, recompute, output, lookup, seen, reads, writes,
                   forced, prev, invocations, notes0, writer, aggVars>>

\* `if !args.no_cache { gitrepo.note(.., &content_str, true)?; }`
\* The write may fail in the store.
WriteNote(stored) ==
    /\ pc = "write"
    /\ writes' = writes + 1
    /\ forced' = NoteForce
    /\ LET r == note(notes, NotesRef(args.recursive), oid, content_str, NoteForce)
       IN  IF stored /\ r.ok
           THEN /\ notes' = r.store
                /\ writer' = [k \in NoteKeys |->
                                 IF r.store[k] # notes[k]
                                 THEN (IF args.recursive THEN "recursive" ELSE "direct")
                                 ELSE writer[k]]
                /\ pc' = "print"
                /\ err' = "none"
           ELSE /\ pc' = "failed"
                /\ err' = "write"
                /\ UNCHANGED <<notes, writer>>
    /\ UNCHANGED <<args, oid, recompute, content_str, output, lookup, seen, reads,
                   computes, prev, invocations, notes0, aggVars>>

\* println!("{content_str}"); Ok(())
PrintOutput ==
    /\ pc = "print"
    /\ output' = content_str
    /\ pc' = "done"
    /\ UNCHANGED <<notes, args, oid, recompute, content_str, lookup, seen, reads,
                   writes, forced, computes, prev, invocations, err, notes0,
                   writer, aggVars>>

Next ==
    \/ \E reference \in References, no_cache \in BOOLEAN, rec \in BOOLEAN,
          opened \in BOOLEAN : Invoke(reference, no_cache, rec, opened)
    \/ Resolve
    \/ \E ioerr \in BOOLEAN : CheckCache(ioerr)
    \/ \E listed \in BOOLEAN, order \in KeyOrders : Recompute(listed, order)
    \/ \E stored \in BOOLEAN : WriteNote(stored)
    \/ PrintOutput

Spec == Init /\ [][Next]_vars

\* --------------------------------------------------- compute_dir_summaries

\* Listings of at most MaxFiles files.
Listings == {S \in SUBSET AllPaths : Cardinality(S) <= MaxFiles}

InitAgg ==
    /\ notes = [k \in NoteKeys |-> NoNote]
    /\ CmdIdle
    /\ tree_files \in Listings
    /\ recursive \in BOOLEAN
    /\ todo = tree_files
    /\ dir_summary = DirSummariesDefault
    /\ pairs = {}
    /\ cur = NoPair
    /\ entry_dir = RootDir
    /\ aggregated_ds = DirSummariesDefault
    /\ apc = "fold"
    /\ walk = << >>
    /\ before = DirSummariesDefault
    /\ ret = DirSummariesDefault

\* One iteration of `for blob_data in tree_listing.files`; the listing's
\* order is the caller's, so any file not yet reached may come next.
FoldStep(path) ==
    /\ apc = "fold"
    /\ path \in todo
    /\ dir_summary' = FoldFile(dir_summary, path)
    /\ todo' = todo \ {path}
    /\ UNCHANGED <<tree_files, recursive, pairs, cur, entry_dir, aggregated_ds,
                   apc, walk, before, ret, cmdVars>>

\* GitTreeListing::build(..)? fails: the error is returned before any file
\* is folded.
ListError ==
    /\ apc = "fold"
    /\ todo = tree_files
    /\ dir_summary = DirSummariesDefault
    /\ apc' = "failed"
    /\ UNCHANGED <<tree_files, recursive, todo, dir_summary, pairs, cur, entry_dir,
                   aggregated_ds, walk, before, ret, cmdVars>>

\* compute_file_summary(&blob_data.path)? fails at a file: the error is
\* returned, what was folded so far is dropped.
FoldError(path) ==
    /\ apc = "fold"
    /\ path \in todo
    /\ apc' = "failed"
    /\ UNCHANGED <<tree_files, recursive, todo, dir_summary, pairs, cur, entry_dir,
                   aggregated_ds, walk, before, ret, cmdVars>>

\* The first loop is over: `if recursive { let mut aggregated_ds = ..`,
\* else `Ok(dir_summary)`.
FoldDone ==
    /\ apc = "fold"
    /\ todo = {}
    /\ IF recursive
       THEN /\ apc' = "rollup"
            /\ pairs' = Pairs(dir_summary)
            /\ aggregated_ds' = DirSummariesDefault
            /\ UNCHANGED ret
       ELSE /\ apc' = "done"
            /\ ret' = dir_summary
            /\ UNCHANGED <<pairs, aggregated_ds>>
    /\ UNCHANGED <<tree_files, recursive, todo, dir_summary, cur, entry_dir, walk,
                   before, cmdVars>>

\* The next (path, file_type) of the two nested `for`, in the HashMaps'
\* iteration order, which is any order: `let mut entry_dir = path`.
NextPair(p) ==
    /\ apc = "rollup"
    /\ p \in pairs
    /\ pairs' = pairs \ {p}
    /\ cur' = p
    /\ entry_dir' = p.path
    /\ apc' = "loop"
    /\ walk' = << >>
    /\ before' = aggregated_ds
    /\ UNCHANGED <<tree_files, recursive, todo, dir_summary, aggregated_ds, ret,
                   cmdVars>>

\* One iteration of `loop`: add the count at entry_dir, then break at the
\* root or move to the parent.
LoopStep ==
    /\ apc = "loop"
    /\ aggregated_ds' = AddAt(aggregated_ds, entry_dir, cur.file_type,
                              dir_summary.summaries[cur.path][cur.file_type])
    /\ IF AtRoot(entry_dir)
       THEN /\ apc' = "rollup"
            /\ UNCHANGED entry_dir
       ELSE /\ entry_dir' = Parent(entry_dir)
            /\ UNCHANGED apc
    /\ walk' = Append(walk, entry_dir)
    /\ UNCHANGED <<tree_files, recursive, todo, dir_summary, pairs, cur, before,
                   ret, cmdVars>>

\* Ok(aggregated_ds)
RollupDone ==
    /\ apc = "rollup"
    /\ pairs = {}
    /\ ret' = aggregated_ds
    /\ apc' = "done"
    /\ UNCHANGED <<tree_files, recursive, todo, dir_summary, pairs, cur,
                   entry_dir, aggregated_ds, walk, before, cmdVars>>

NextAgg ==
    \/ \E path \in AllPaths : FoldStep(path)
    \/ ListError
    \/ \E path \in AllPaths : FoldError(path)
    \/ FoldDone
    \/ \E p \in pairs : NextPair(p)
    \/ LoopStep
    \/ RollupDone

AggSpec == InitAgg /\ [][NextAgg]_vars

\* ------------------------------------------------- properties of the command

\* The invocation has evaluated the cache condition (lines 51-68).
Decided == lookup # "none"

\* It left the condition with recompute = false: the stored text is printed.
OnReuse == Decided /\ ~recompute

\* It entered `if recompute { .. }`.
OnRecompute == pc = "recompute" \/ computes > 0

\* The note handed back by the store parses and carries the current version.
SeenReusable == from_str(seen).ok /\ IsCurrent(from_str(seen).d)

\* C1: with no_cache = true the invocation never calls find_note, never calls
\* gitrepo.note, and always takes the recompute path.
C1_NoCacheNeverTouchesStore ==
    args.no_cache =>
        /\ reads = 0
        /\ writes = 0
        /\ (Decided => OnRecompute)

\* C2: the invocation reuses the stored text if and only if no_cache is false,
\* the store handed back a note, the note decodes and its version is
\* DIR_SUMMARY_VERSION; in every other case it recomputes.
C2_ReuseIffValidEntry ==
    Decided =>
        LET valid == ~args.no_cache /\ lookup = "ok" /\ SeenReusable
        IN  /\ OnReuse <=> valid
            /\ ~valid => OnRecompute

\* C3: a completed invocation with the cache on that recomputed has written
\* the store exactly once, with force = true, and the note under its key is
\* exactly the text it computed and printed, of version DIR_SUMMARY_VERSION;
\* nothing of the prior note is left.
C3_RecomputeReplacesEntry ==
    (pc = "done" /\ ~args.no_cache /\ computes > 0) =>
        /\ writes = 1
        /\ forced
        /\ notes[Key] = output
        /\ notes[Key].kind = "json"
        /\ from_str(notes[Key]).d.version = DIR_SUMMARY_VERSION
        /\ from_str(notes[Key]).d.summaries =
               compute_dir_summaries(TreeListing(oid), args.recursive).summaries

\* A completed recompute over a note of the previous version, now replaced.
C3_Witness ==
    /\ pc = "done" /\ ~args.no_cache /\ computes = 1
    /\ seen = StaleNote
    /\ notes[Key] # seen
    /\ notes[Key].version = DIR_SUMMARY_VERSION
    /\ notes[Key].summaries # EmptyMap

\* C4: a stored note that cannot be decoded (its message not being text
\* included) or that has another version never fails the invocation: the
\* invocation goes on to recompute.
C4_MalformedEntryIsAMiss ==
    (Decided /\ ~args.no_cache /\ lookup = "ok" /\ ~SeenReusable) => OnRecompute

Count(ds, d, t) ==
    IF d \in DOMAIN ds.summaries /\ t \in DOMAIN ds.summaries[d]
    THEN ds.summaries[d][t].count ELSE 0

\* c is a directory directly inside d.
IsChildDir(c, d) == Len(c) = Len(d) + 1 /\ SubSeq(c, 1, Len(d)) = d

\* The directory a file is directly in.
DirOf(path) == SubSeq(path, 1, Len(path) - 1)

TypeOf(path)  == summarize_libmagic(path).file_type
LabelOf(path) == summarize_libmagic(path).file_type_simple

Classified == {f \in tree_files : TypeOf(f) # ""}

\* The sum of the counts of type t over the directories of dirs.
RECURSIVE SumOverDirs(_, _, _)
SumOverDirs(ds, dirs, t) ==
    IF dirs = {} THEN 0
    ELSE LET d == CHOOSE e \in dirs : TRUE
         IN  Count(ds, d, t) + SumOverDirs(ds, dirs \ {d}, t)

\* The sum of the counts of directory d over the types of types.
RECURSIVE SumOverTypes(_, _, _)
SumOverTypes(ds, d, types) ==
    IF types = {} THEN 0
    ELSE LET t == CHOOSE u \in types : TRUE
         IN  Count(ds, d, t) + SumOverTypes(ds, d, types \ {t})

\* Every directory a summary has a key for, and every type under them.
KeysOf(ds)  == DOMAIN ds.summaries
TypesOf(ds) == UNION {DOMAIN ds.summaries[d] : d \in DOMAIN ds.summaries}

\* C6: in the recursive result, the count of (D, T) is the direct count of
\* (D, T) plus the recursive counts of T of the direct child directories of
\* D, for every directory up to the root.
C6_RecursiveIsDirectPlusChildren ==
    (apc = "done" /\ recursive) =>
        \A d \in AllDirs \cup KeysOf(ret) : \A t \in TypeLabels \cup TypesOf(ret) :
            Count(ret, d, t) =
                Count(dir_summary, d, t)
                + SumOverDirs(ret, {c \in AllDirs \cup KeysOf(ret) : IsChildDir(c, d)}, t)

\* A directory with files of its own and two child directories with files of
\* the same type.
C6_Witness ==
    /\ apc = "done" /\ recursive
    /\ \E d \in AllDirs, t \in TypeLabels :
          /\ Count(dir_summary, d, t) > 0
          /\ Cardinality({c \in AllDirs : IsChildDir(c, d) /\ Count(ret, c, t) > 0}) >= 2
          /\ Count(ret, d, t) = 3

\* C7: in the recursive result the counts of the root, summed over the
\* types, are the number of files with a non-empty type label.
C7_RootTotalIsClassifiedFiles ==
    (apc = "done" /\ recursive) =>
        SumOverTypes(ret, RootDir, TypeLabels \cup TypesOf(ret)) = Cardinality(Classified)

\* Two types, a file two levels down and an unclassified file.
C7_Witness ==
    /\ apc = "done" /\ recursive
    /\ Cardinality(Classified) = 2
    /\ Classified # tree_files
    /\ \E f \in Classified : Len(DirOf(f)) = 2
    /\ Count(ret, RootDir, "png") = 1 /\ Count(ret, RootDir, "txt") = 1

\* C8: in the non-recursive result the count of (D, T), T not empty, is the
\* number of files directly in D with type T; files further down and files
\* with an empty type label are in no count.
C8_DirectCountsDirectFiles ==
    (apc = "done" /\ ~recursive) =>
        /\ \A d \in AllDirs \cup KeysOf(ret) : \A t \in TypeLabels \cup TypesOf(ret) :
              Count(ret, d, t) =
                  Cardinality({f \in tree_files : DirOf(f) = d /\ TypeOf(f) = t})
        /\ "" \notin TypesOf(ret)

\* Two files of one type in a directory, a third of that type below it.
C8_Witness ==
    /\ apc = "done" /\ ~recursive
    /\ \E d \in AllDirs, c \in AllDirs, t \in TypeLabels :
          /\ IsChildDir(c, d)
          /\ Count(ret, d, t) = 2
          /\ Count(ret, c, t) = 1

\* C9: a file with an empty type label leaves the per-directory map as it
\* was: every key of the map has a file with a type directly in it among the
\* files already folded.
C9_UnclassifiedFileLeavesNoEntry ==
    \A d \in KeysOf(dir_summary) :
        \E f \in tree_files \ todo : DirOf(f) = d /\ TypeOf(f) # ""

\* The counts of a summary, without the display names.
CountsOf(ds) ==
    [d \in DOMAIN ds.summaries |->
        [t \in DOMAIN ds.summaries[d] |-> ds.summaries[d][t].count]]

\* The result of the same files folded and rolled up in one fixed order.
InFixedOrder == compute_dir_summaries(SetToSeq(tree_files), recursive)

\* Every type label of the listing comes with one display name.
OneNamePerType ==
    \A f \in tree_files, g \in tree_files :
        TypeOf(f) = TypeOf(g) => LabelOf(f) = LabelOf(g)

\* C10: whatever the order of the files (and of the roll-up), the result,
\* counts and display names, is the same.
C10_ResultIndependentOfOrder ==
    apc = "done" => ret = InFixedOrder

\* C10 as amended: the counts are the same in every order; so are the
\* display names when every type label comes with one display name.
C10_CountsIndependentOfOrder ==
    apc = "done" =>
        /\ CountsOf(ret) = CountsOf(InFixedOrder)
        /\ OneNamePerType => ret = InFixedOrder

\* Two orders of one listing that give the same counts and other names.
C10_Witness ==
    /\ apc = "done"
    /\ Cardinality(tree_files) >= 2
    /\ ~OneNamePerType
    /\ ret # InFixedOrder
    /\ CountsOf(ret) = CountsOf(InFixedOrder)

\* -------------------------------------- properties of the command, continued

\* C11: when the write of the computed text to the store fails, the text is
\* still printed.
C11_WriteFailureKeepsOutput ==
    err = "write" => output = content_str

\* C13: when the reference does not resolve, or the listing or the
\* classification fails, the invocation ends with an error, prints nothing,
\* calls gitrepo.note neither before nor after, and every note of the store
\* is as it was when the invocation started.
C13_FailureLeavesStoreAndOutput ==
    err \in {"resolve", "compute"} =>
        /\ pc = "failed"
        /\ output = NoOutput
        /\ writes = 0
        /\ notes = notes0

\* The listing failed after a note of the previous version was found: the
\* note is still there.
C13_Witness ==
    /\ err = "compute" /\ ~args.no_cache
    /\ seen = StaleNote
    /\ notes[Key] = StaleNote

\* C14: a failure of find_note other than a missing note ends the invocation
\* with an error; it is not taken as a miss.
C14_LookupFailureIsSurfaced ==
    (lookup = "err" /\ ~args.no_cache) => (pc = "failed" /\ computes = 0)

\* The mode a notes ref belongs to.
ModeOfRef(notes_ref) ==
    IF notes_ref = "refs/notes/xet/dir-summary-recursive" THEN "recursive" ELSE "direct"

ModeOfArgs == IF args.recursive THEN "recursive" ELSE "direct"

\* C17: an invocation with recursive = r reads and writes only under the
\* notes ref of mode r (and its own commit), so a note is only ever written
\* by invocations of its ref's mode, and a reused text that an invocation
\* wrote was computed with the same recursive flag.
C17_ModesAreIsolated ==
    /\ \A k \in NoteKeys :
          notes[k] # notes0[k] => (ModeOfRef(k[1]) = ModeOfArgs /\ k[2] = oid)
    /\ lookup = "ok" =>
          \E k \in NoteKeys :
              /\ ModeOfRef(k[1]) = ModeOfArgs /\ k[2] = oid
              /\ seen = notes0[k]
    /\ \A k \in NoteKeys : writer[k] # "nobody" => writer[k] = ModeOfRef(k[1])
    /\ (OnReuse /\ writer[Key] # "nobody") => writer[Key] = ModeOfArgs

\* Both refs of commit c1 hold a note written in their own mode, and the
\* two texts differ.
C17_Witness ==
    /\ pc = "done"
    /\ writer[<<"refs/notes/xet/dir-summary", "c1">>] = "direct"
    /\ writer[<<"refs/notes/xet/dir-summary-recursive", "c1">>] = "recursive"
    /\ notes[<<"refs/notes/xet/dir-summary", "c1">>].summaries
           # notes[<<"refs/notes/xet/dir-summary-recursive", "c1">>].summaries

\* ---------------------------------- properties of the aggregation, continued

\* The first n components of a directory path.
Prefix(d, n) == SubSeq(d, 1, n)

\* d is e or a directory above e.
IsAncestorOrSelf(d, e) == Len(d) <= Len(e) /\ Prefix(e, Len(d)) = d

\* The summary has an entry for type t in directory d.
HasEntry(ds, d, t) == d \in DOMAIN ds.summaries /\ t \in DOMAIN ds.summaries[d]

\* A `loop` has run to its break and no other has started since.
LoopOver == apc \in {"rollup", "done"} /\ cur # NoPair

\* C12: the loop of a (directory, type) pair visits the directory, then each
\* parent in turn, then "", each once; it adds the pair's count once at each
\* and nowhere else; it stops right after "", after at most one iteration per
\* component plus one; a pair of "" makes one iteration.
C12_WalkVisitsEachAncestorOnce ==
    LET n   == Len(cur.path)
        cnt == dir_summary.summaries[cur.path][cur.file_type].count
        visited == {walk[i] : i \in 1..Len(walk)}
    IN  (apc = "loop" \/ LoopOver) =>
          /\ \A i \in 1..Len(walk) : walk[i] = Prefix(cur.path, n - i + 1)
          /\ apc = "loop" => (Len(walk) <= n /\ entry_dir = Prefix(cur.path, n - Len(walk)))
          /\ LoopOver => (Len(walk) = n + 1 /\ walk[Len(walk)] = RootDir)
          /\ \A d \in AllDirs \cup KeysOf(aggregated_ds) :
               \A t \in TypeLabels \cup TypesOf(aggregated_ds) :
                 Count(aggregated_ds, d, t) =
                     Count(before, d, t)
                     + (IF t = cur.file_type /\ d \in visited THEN cnt ELSE 0)

\* The loop of a pair of a/b is over: a/b, a, "" were visited, and a had a
\* count of that type before.
C12_Witness ==
    /\ apc = "rollup"
    /\ cur.path = <<"a", "b">>
    /\ walk = << <<"a", "b">>, <<"a">>, RootDir >>
    /\ Count(before, <<"a">>, cur.file_type) = 2
    /\ Count(aggregated_ds, <<"a">>, cur.file_type) = 3

\* C15: in the direct fold every file with a type adds exactly 1 to the count
\* of its (directory, type) entry; the display name of the entry is the
\* file's when the entry is new and stays as it was otherwise; no other
\* entry changes.
C15_FirstNameWinsCountAccumulates ==
    [][(apc = "fold" /\ todo' # todo) =>
          LET f == CHOOSE g \in todo \ todo' : TRUE
              d == DirOf(f)
              t == TypeOf(f)
          IN  /\ t # "" =>
                    /\ Count(dir_summary', d, t) = Count(dir_summary, d, t) + 1
                    /\ dir_summary'.summaries[d][t].display_name =
                          IF HasEntry(dir_summary, d, t)
                          THEN dir_summary.summaries[d][t].display_name
                          ELSE LabelOf(f)
              /\ \A e \in KeysOf(dir_summary') : \A u \in DOMAIN dir_summary'.summaries[e] :
                    (e # d \/ u # t) =>
                        /\ HasEntry(dir_summary, e, u)
                        /\ dir_summary'.summaries[e][u] = dir_summary.summaries[e][u]
       ]_vars

\* y.png then x.png were folded into one directory: the count is 2 and the
\* name is still that of y.png.
C15_Witness ==
    /\ apc = "fold" /\ todo = {}
    /\ \E d \in AllDirs :
          /\ {Append(d, "x.png"), Append(d, "y.png")} \subseteq tree_files
          /\ Count(dir_summary, d, "png") = 2
          /\ dir_summary.summaries[d]["png"].display_name = LabelOf(Append(d, "y.png"))

\* C16: the keys of the recursive result are exactly the directories equal
\* to or above a directory with a file with a type directly in it; every key
\* has at least one type, every count is at least 1; with no such file the
\* result is empty.
C16_RecursiveKeysAreAncestorsOfClassified ==
    (apc = "done" /\ recursive) =>
        /\ KeysOf(ret) =
              {d \in AllDirs : \E f \in Classified : IsAncestorOrSelf(d, DirOf(f))}
        /\ \A d \in KeysOf(ret) :
              /\ DOMAIN ret.summaries[d] # {}
              /\ \A t \in DOMAIN ret.summaries[d] : ret.summaries[d][t].count >= 1
        /\ Classified = {} => ret.summaries = EmptyMap

\* A directory with only an unclassified file is absent, next to another
\* directory that is present together with the root.
C16_Witness ==
    /\ apc = "done" /\ recursive
    /\ \E f \in tree_files \ Classified :
          /\ DirOf(f) # RootDir
          /\ DirOf(f) \notin KeysOf(ret)
    /\ RootDir \in KeysOf(ret)
    /\ Cardinality(KeysOf(ret)) >= 2
====
